---------------------------- MODULE Spec2Model ----------------------------
(***************************************************************************)
(* A model of c7n/resources/rdscluster.py (the rds-cluster and             *)
(* rds-cluster-snapshot actions) and c7n/resources/account.py (the account *)
(* filters).                                                               *)
(*                                                                         *)
(* Spec        : one invocation of an rds-cluster(-snapshot) action        *)
(* SpecAccount : evaluations of one account filter on the account record   *)
(***************************************************************************)
EXTENDS Integers, Sequences, FiniteSets, TLC

VARIABLES
    action,       \* which action's or filter's process() is running
    data,         \* the action's or filter's configuration (self.data)
    resources,    \* the list handed to process()
    units,        \* the iterable of the submission loop of process()
    futures,      \* the futures list of process(): one entry per submitted unit
    pc,           \* position of the thread running process()
    yielded,      \* futures already yielded by the current as_completed()
    calls,        \* provider API calls issued so far, in order
    errors,       \* self.log.error() calls made so far, in order
    exc,          \* the exception process() raised, "none" if none
    idx,          \* Delete.process: clusters the for loop has finished with
    results       \* account filters: the outcome of each process() evaluation

vars == <<action, data, resources, units, futures, pc, yielded, calls, errors, exc,
          idx, results>>

-----------------------------------------------------------------------------
(* Bounds of the model *)

MaxResources == 2

MaxDays == 2

MaxSnapshots == 120

(* Constants of the program *)

RetentionWorkers == 2

SnapshotWorkers == 3

SnapshotDeleteWorkers == 3

ChunkSize == 50

-----------------------------------------------------------------------------
(* Python helpers *)

\* dict.get(key, default)
Get(d, key, default) == IF key \in DOMAIN d THEN d[key] ELSE default

Max(a, b) == IF a >= b THEN a ELSE b

\* reversed(seq)
Reversed(s) == [k \in 1..Len(s) |-> s[Len(s) + 1 - k]]

\* c7n.utils.chunks(iterable, size): consecutive batches of `size` elements,
\* the last one holding the remainder when there is one.
RECURSIVE chunks(_, _)
chunks(s, size) ==
    IF Len(s) = 0 THEN <<>>
    ELSE IF Len(s) <= size THEN <<s>>
    ELSE <<SubSeq(s, 1, size)>> \o chunks(SubSeq(s, size + 1, Len(s)), size)

\* mutant: the batches hold twice as many snapshots
SnapshotSets_Hundred(snapshots) == chunks(Reversed(snapshots), 2 * ChunkSize)

\* mutant: the list is batched without being reversed
SnapshotSets_NotReversed(snapshots) == chunks(snapshots, ChunkSize)

\* the iterable of the submission loop of RDSClusterSnapshotDelete.process
SnapshotSets(snapshots) == chunks(Reversed(snapshots), ChunkSize)

-----------------------------------------------------------------------------
(* Inputs *)

Windows == {1, 2}

\* a cluster as describe_db_clusters reports it; BackupRetentionPeriod may
\* be missing from the record
ClusterKinds == [brp : {-1} \cup (0..MaxDays), win : Windows]

Cluster(k, kind) ==
    LET base == [DBClusterIdentifier |-> k,
                 PreferredBackupWindow |-> <<"backup", kind.win>>,
                 PreferredMaintenanceWindow |-> <<"maint", kind.win>>]
    IN  IF kind.brp < 0 THEN base
        ELSE base @@ ("BackupRetentionPeriod" :> kind.brp)

ClusterLists ==
    UNION {{[k \in 1..n |-> Cluster(k, f[k])] : f \in [1..n -> ClusterKinds]}
           : n \in 0..MaxResources}

PlainClusterLists ==
    {[k \in 1..n |-> Cluster(k, [brp |-> 1, win |-> 1])] : n \in 0..MaxResources}

Snapshots(n) == [k \in 1..n |-> [DBClusterSnapshotIdentifier |-> k - 1]]

SnapshotLists == {Snapshots(n) : n \in 0..MaxSnapshots}

Concurrent == {"retention", "snapshot", "snapshot-delete"}

-----------------------------------------------------------------------------
(* The Units of work of a concurrent action and its pool size *)

\* the iterable each process() loops over
LoopIterable ==
    IF action = "snapshot-delete" THEN SnapshotSets(resources) ELSE resources

max_workers ==
    CASE action = "retention" -> RetentionWorkers
      [] action = "snapshot" -> SnapshotWorkers
      [] action = "snapshot-delete" -> SnapshotDeleteWorkers
      [] OTHER -> 0

Running == {f \in 1..Len(futures) : futures[f].state = "running"}

Done == {f \in 1..Len(futures) : futures[f].state = "done"}

-----------------------------------------------------------------------------
(* Exceptions *)

\* Whether the module binds the name ClientError: none of its imports does.
ClientErrorBound == FALSE

\* The provider errors delete_db_cluster is given to raise, by error code
ErrorCodes == {"InvalidDBClusterStateFault", "DBClusterNotFoundFault"}

\* Delete.process, the except clause: the exception that leaves it, "none"
\* when the error is swallowed.  Matching `except ClientError` looks the name
\* up, and an unbound name raises NameError in place of the error in flight.
DeleteExcept(code) ==
    IF ~ClientErrorBound THEN "NameError"
    ELSE IF code \in {"InvalidDBClusterStateFault"} THEN "none"
    ELSE "ClientError"

\* process_snapshot_set, the except clause: re-raises the error
SnapshotSetExcept ==
    IF ~ClientErrorBound THEN "NameError" ELSE "ClientError"

\* c7n.utils.snapshot_identifier(prefix, db_identifier), without the date
snapshot_identifier(prefix, id) == <<prefix, id>>

-----------------------------------------------------------------------------
(* The unit functions.  Each gives the provider calls the unit issues and the
   exception it ends with; `fail` is the position of the call the provider
   answers with an error, 0 when every call succeeds. *)

\* int(x) of an integer
PyInt(x) == x

\* mutant: the maintenance window is filled from the backup window
set_retention_window_WrongWindow(resource, retention) ==
    [op |-> "modify_db_cluster",
     DBClusterIdentifier |-> resource["DBClusterIdentifier"],
     BackupRetentionPeriod |-> retention,
     PreferredBackupWindow |-> resource["PreferredBackupWindow"],
     PreferredMaintenanceWindow |-> resource["PreferredBackupWindow"]]

\* RetentionWindow.set_retention_window: the parameters of modify_db_cluster
set_retention_window(resource, retention) ==
    [op |-> "modify_db_cluster",
     DBClusterIdentifier |-> resource["DBClusterIdentifier"],
     BackupRetentionPeriod |-> retention,
     PreferredBackupWindow |-> resource["PreferredBackupWindow"],
     PreferredMaintenanceWindow |-> resource["PreferredMaintenanceWindow"]]

\* mutant: the retention is set whenever it differs from the requested days
process_snapshot_retention_Unequal(resource, fail) ==
    LET current_retention == PyInt(Get(resource, "BackupRetentionPeriod", 0))
        new_retention == data["days"]
    IN  IF current_retention # new_retention
        THEN [calls |-> <<set_retention_window(resource, new_retention)
                          @@ ("raised" :> (fail = 1))>>,
              exception |-> IF fail = 1 THEN "ClientError" ELSE "none",
              resource |-> resource]
        ELSE [calls |-> <<>>, exception |-> "none", resource |-> resource]

\* RetentionWindow.process_snapshot_retention
process_snapshot_retention(resource, fail) ==
    LET current_retention == PyInt(Get(resource, "BackupRetentionPeriod", 0))
        new_retention == data["days"]
    IN  IF current_retention < new_retention
        THEN [calls |-> <<set_retention_window(
                             resource, Max(current_retention, new_retention))
                          @@ ("raised" :> (fail = 1))>>,
              exception |-> IF fail = 1 THEN "ClientError" ELSE "none",
              resource |-> resource]
        ELSE [calls |-> <<>>, exception |-> "none", resource |-> resource]

\* Snapshot.process_cluster_snapshot
process_cluster_snapshot(resource, fail) ==
    [calls |-> <<[op |-> "create_db_cluster_snapshot",
                  DBClusterSnapshotIdentifier |->
                      snapshot_identifier("Backup", resource["DBClusterIdentifier"]),
                  DBClusterIdentifier |-> resource["DBClusterIdentifier"],
                  raised |-> (fail = 1)]>>,
     exception |-> IF fail = 1 THEN "ClientError" ELSE "none",
     resource |-> resource]

\* mutant: the loop goes on to the remaining snapshots after a call raised
process_snapshot_set_Continue(snapshots_set, fail) ==
    [calls |-> [k \in 1..Len(snapshots_set) |->
                  [op |-> "delete_db_cluster_snapshot",
                   DBClusterSnapshotIdentifier |->
                       snapshots_set[k]["DBClusterSnapshotIdentifier"],
                   raised |-> (k = fail)]],
     exception |-> IF fail = 0 THEN "none" ELSE SnapshotSetExcept,
     resource |-> snapshots_set]

\* RDSClusterSnapshotDelete.process_snapshot_set: the loop stops at the
\* first call that raises
process_snapshot_set(snapshots_set, fail) ==
    LET n == IF fail = 0 THEN Len(snapshots_set) ELSE fail
    IN  [calls |-> [k \in 1..n |->
                      [op |-> "delete_db_cluster_snapshot",
                       DBClusterSnapshotIdentifier |->
                           snapshots_set[k]["DBClusterSnapshotIdentifier"],
                       raised |-> (k = fail)]],
         exception |-> IF fail = 0 THEN "none" ELSE SnapshotSetExcept,
         resource |-> snapshots_set]

\* how many provider calls the unit issues when none raises
NCalls(unit) ==
    CASE action = "retention" ->
             Len(process_snapshot_retention(unit, 0).calls)
      [] action = "snapshot" -> 1
      [] action = "snapshot-delete" -> Len(unit)

\* the provider's answers to a unit of n calls: every call succeeds (0), or
\* the first, the middle or the last call raises
FailPoints(n) == {k \in {0, 1, (n + 1) \div 2, n} : k <= n}

RunUnit(unit, fail) ==
    CASE action = "retention" -> process_snapshot_retention(unit, fail)
      [] action = "snapshot" -> process_cluster_snapshot(unit, fail)
      [] action = "snapshot-delete" -> process_snapshot_set(unit, fail)

-----------------------------------------------------------------------------
(* One invocation of an action: Init is the state at the call of process() *)

Init ==
    /\ \/ /\ action = "retention"
          /\ resources \in ClusterLists
          /\ data \in [days : 0..MaxDays]
       \/ /\ action = "snapshot"
          /\ resources \in PlainClusterLists
          /\ data = <<>>
       \/ /\ action = "snapshot-delete"
          /\ resources \in SnapshotLists
          /\ data = <<>>
       \/ /\ action = "delete"
          /\ resources \in PlainClusterLists
          /\ data \in {<<>>} \cup {"skip-snapshot" :> b : b \in BOOLEAN}
    /\ pc = "call"
    /\ units = <<>>
    /\ futures = <<>>
    /\ yielded = {}
    /\ calls = <<>>
    /\ errors = <<>>
    /\ exc = "none"
    /\ idx = 0
    /\ results = <<>>

\* process() is entered and reaches its for loop
Process ==
    /\ pc = "call"
    /\ units' = LoopIterable
    /\ pc' = IF action = "delete" THEN "loop" ELSE "submit"
    /\ UNCHANGED <<action, data, resources, futures, yielded, calls, errors, exc, idx, results>>

(* The thread running process() of a concurrent action *)

\* futures.append(w.submit(unit function, unit)), then as_completed(futures)
Submit ==
    /\ action \in Concurrent
    /\ pc = "submit"
    /\ Len(futures) < Len(units)
    /\ futures' = Append(futures, [state |-> "pending", exception |-> "none"])
    /\ yielded' = {}
    /\ pc' = "wait"
    /\ UNCHANGED <<action, data, resources, units, calls, errors, exc, idx, results>>

\* mutant: the exception of a yielded future is raised, as f.result() does
AsCompleted_Reraise(f) ==
    /\ action \in Concurrent
    /\ pc = "wait"
    /\ f \in Done \ yielded
    /\ yielded' = yielded \cup {f}
    /\ IF futures[f].exception # "none"
       THEN pc' = "raised" /\ exc' = futures[f].exception
       ELSE UNCHANGED <<pc, exc>>
    /\ UNCHANGED <<action, data, resources, units, futures, calls, errors, idx, results>>

\* for f in as_completed(futures): a finished future not yet yielded by this
\* as_completed is yielded, and logged when it holds an exception
AsCompleted(f) ==
    /\ action \in Concurrent
    /\ pc = "wait"
    /\ f \in Done \ yielded
    /\ yielded' = yielded \cup {f}
    /\ errors' = IF futures[f].exception # "none"
                 THEN Append(errors, [unit |-> f, exception |-> futures[f].exception])
                 ELSE errors
    /\ UNCHANGED <<action, data, resources, units, futures, pc, calls, exc, idx, results>>

\* mutant: the loop goes on to the next unit without waiting
NextUnit_NoWait ==
    /\ action \in Concurrent
    /\ pc = "wait"
    /\ pc' = "submit"
    /\ UNCHANGED <<action, data, resources, units, futures, yielded, calls, errors, exc,
                   idx, results>>

\* as_completed is exhausted once it has yielded every future of the list
NextUnit ==
    /\ action \in Concurrent
    /\ pc = "wait"
    /\ yielded = 1..Len(futures)
    /\ pc' = "submit"
    /\ UNCHANGED <<action, data, resources, units, futures, yielded, calls, errors, exc,
                   idx, results>>

\* what process() returns: Snapshot and RDSClusterSnapshotDelete return the
\* list they were given, RetentionWindow has no return statement
Returned ==
    IF action = "retention" THEN [value |-> "None"]
    ELSE [value |-> "resources", resources |-> resources]

\* mutant: process() returns once the last unit is submitted, waiting for
\* no future
Return_Early ==
    /\ action \in Concurrent
    /\ pc \in {"submit", "wait"}
    /\ Len(futures) = Len(units)
    /\ pc' = "returned"
    /\ results' = <<Returned>>
    /\ UNCHANGED <<action, data, resources, units, futures, yielded, calls, errors, exc,
                   idx>>

\* the for loop is over: the with block shuts the executor down, waiting for
\* its futures, and process() returns
Return ==
    /\ action \in Concurrent
    /\ pc = "submit"
    /\ Len(futures) = Len(units)
    /\ Done = 1..Len(futures)
    /\ pc' = "returned"
    /\ results' = <<Returned>>
    /\ UNCHANGED <<action, data, resources, units, futures, yielded, calls, errors, exc,
                   idx>>

(* The pool's worker threads *)

\* a free worker takes a pending unit
WorkerStart(f) ==
    /\ action \in Concurrent
    /\ f \in 1..Len(futures)
    /\ futures[f].state = "pending"
    /\ Cardinality(Running) < max_workers
    /\ futures' = [futures EXCEPT ![f].state = "running"]
    /\ UNCHANGED <<action, data, resources, units, pc, yielded, calls, errors, exc, idx, results>>

\* the unit function runs to its end; the future keeps its exception
WorkerFinish(f) ==
    /\ action \in Concurrent
    /\ f \in Running
    /\ \E fail \in FailPoints(NCalls(units[f])) :
          LET r == RunUnit(units[f], fail)
          IN  /\ calls' = calls \o [k \in 1..Len(r.calls) |-> r.calls[k] @@ ("unit" :> f)]
              /\ futures' = [futures EXCEPT ![f] =
                                 [state |-> "done", exception |-> r.exception]]
              /\ resources' = IF action = "snapshot-delete" THEN resources
                              ELSE [resources EXCEPT ![f] = r.resource]
    /\ UNCHANGED <<action, data, units, pc, yielded, errors, exc, idx, results>>

(* Delete.process: one iteration of its for loop *)

DeleteParams(cluster) ==
    IF Get(data, "skip-snapshot", FALSE)
    THEN [op |-> "delete_db_cluster",
          DBClusterIdentifier |-> cluster["DBClusterIdentifier"],
          SkipFinalSnapshot |-> TRUE]
    ELSE [op |-> "delete_db_cluster",
          DBClusterIdentifier |-> cluster["DBClusterIdentifier"],
          FinalDBSnapshotIdentifier |->
              snapshot_identifier("Final", cluster["DBClusterIdentifier"])]

\* mutant: the exception is kept and the loop goes on to the next cluster
DeleteCluster_Deferred ==
    /\ action = "delete"
    /\ pc = "loop"
    /\ idx < Len(units)
    /\ \E outcome \in {"ok"} \cup ErrorCodes :
          LET left == IF outcome = "ok" THEN "none" ELSE DeleteExcept(outcome)
          IN  /\ calls' = Append(calls, DeleteParams(units[idx + 1])
                                        @@ ("unit" :> idx + 1) @@ ("outcome" :> outcome))
              /\ idx' = idx + 1
              /\ exc' = IF left = "none" THEN exc ELSE left
              /\ UNCHANGED pc
    /\ UNCHANGED <<action, data, resources, units, futures, yielded, errors, results>>

\* one iteration: the call, and the except clause when it raises
DeleteCluster ==
    /\ action = "delete"
    /\ pc = "loop"
    /\ idx < Len(units)
    /\ \E outcome \in {"ok"} \cup ErrorCodes :
          LET left == IF outcome = "ok" THEN "none" ELSE DeleteExcept(outcome)
          IN  /\ calls' = Append(calls, DeleteParams(units[idx + 1])
                                        @@ ("unit" :> idx + 1) @@ ("outcome" :> outcome))
              /\ IF left = "none"
                 THEN idx' = idx + 1 /\ UNCHANGED <<pc, exc>>
                 ELSE pc' = "raised" /\ exc' = left /\ UNCHANGED idx
    /\ UNCHANGED <<action, data, resources, units, futures, yielded, errors, results>>

DeleteReturn ==
    /\ action = "delete"
    /\ pc = "loop"
    /\ idx = Len(units)
    /\ pc' = "returned"
    /\ UNCHANGED <<action, data, resources, units, futures, yielded, calls, errors, exc,
                   idx, results>>

Next ==
    \/ Process
    \/ Submit
    \/ \E f \in 1..Len(futures) : AsCompleted(f)
    \/ NextUnit
    \/ Return
    \/ \E f \in 1..Len(futures) : WorkerStart(f)
    \/ \E f \in 1..Len(futures) : WorkerFinish(f)
    \/ DeleteCluster
    \/ DeleteReturn

Spec == Init /\ [][Next]_vars

-----------------------------------------------------------------------------
(* Properties of the rds-cluster actions *)

CallsOf(f) == SelectSeq(calls, LAMBDA c : c["unit"] = f)

Failed == {f \in 1..Len(futures) : futures[f].exception # "none"}

CurrentRetention(r) == IF "BackupRetentionPeriod" \in DOMAIN r
                       THEN r["BackupRetentionPeriod"] ELSE 0

\* C1: a unit that raises stops nothing. A concurrent action never raises
\* out of process(); while it has not returned it can always take a step;
\* and when it returns every unit of the input, the ones after a failed
\* unit included, has been submitted and has run (its provider calls were
\* issued).
C1_FailedUnitStopsNothing ==
    action \in Concurrent =>
        /\ pc # "raised" /\ exc = "none"
        /\ pc # "returned" => ENABLED Next
        /\ pc = "returned" =>
              /\ Len(futures) = Len(units)
              /\ \A f \in 1..Len(units) :
                    /\ futures[f].state = "done"
                    /\ NCalls(units[f]) > 0 => Len(CallsOf(f)) > 0

\* C1 witness: process() has returned, a unit raised and a later unit ran
C1_Witness ==
    /\ action \in Concurrent
    /\ pc = "returned"
    /\ \E k \in Failed : \E f \in 1..Len(futures) :
          f > k /\ Len(CallsOf(f)) > 0

\* C2: when exactly one unit of the batch raised, the other units' side
\* effects are performed and the failure is reported exactly once.
C2_OneFailureReportedOnce ==
    (action \in Concurrent /\ pc = "returned" /\ Cardinality(Failed) = 1) =>
        /\ \A f \in (1..Len(units)) \ Failed :
              Len(CallsOf(f)) = NCalls(units[f])
        /\ Len(errors) = 1

\* C3: retention is never lowered. Every modify_db_cluster call is for a
\* resource whose current BackupRetentionPeriod (0 if absent) is strictly
\* below the requested days and sends a period not below the current one; a
\* resource whose current period is not below the requested one gets no call;
\* and no step changes a resource record.
C3_RetentionNeverLowered ==
    /\ [](action = "retention" =>
            /\ \A k \in 1..Len(calls) :
                  LET r == resources[calls[k]["unit"]]
                  IN  /\ calls[k]["op"] = "modify_db_cluster"
                      /\ CurrentRetention(r) < data["days"]
                      /\ calls[k]["BackupRetentionPeriod"] >= CurrentRetention(r)
            /\ \A f \in 1..Len(resources) :
                  CurrentRetention(resources[f]) >= data["days"]
                      => Len(CallsOf(f)) = 0)
    /\ [][action = "retention" => resources' = resources]_vars

\* C3 witness: the action has returned and left alone a resource whose
\* retention is above the requested one
C3_Witness ==
    /\ action = "retention"
    /\ pc = "returned"
    /\ \E f \in 1..Len(resources) :
          /\ CurrentRetention(resources[f]) > data["days"]
          /\ data["days"] > 0
          /\ Len(CallsOf(f)) = 0

\* C4: a resource whose current retention is below the requested days gets,
\* once its unit has run, exactly one modify_db_cluster call, which carries
\* the requested days and the resource's own identifier, backup window and
\* maintenance window.
C4_OneModifyCallKeepsWindows ==
    action = "retention" =>
        \A f \in Done :
            CurrentRetention(resources[f]) < data["days"] =>
                /\ Len(CallsOf(f)) = 1
                /\ LET c == CallsOf(f)[1]
                       r == resources[f]
                   IN  /\ c["op"] = "modify_db_cluster"
                       /\ c["BackupRetentionPeriod"] = data["days"]
                       /\ c["DBClusterIdentifier"] = r["DBClusterIdentifier"]
                       /\ c["PreferredBackupWindow"] = r["PreferredBackupWindow"]
                       /\ c["PreferredMaintenanceWindow"] =
                              r["PreferredMaintenanceWindow"]

\* C4 witness: a unit has raised the retention of a resource that had one
C4_Witness ==
    /\ action = "retention"
    /\ \E f \in Done :
          /\ "BackupRetentionPeriod" \in DOMAIN resources[f]
          /\ 0 < CurrentRetention(resources[f])
          /\ CurrentRetention(resources[f]) < data["days"]
          /\ Len(CallsOf(f)) = 1

\* C5: in the delete action, a delete_db_cluster error with code
\* InvalidDBClusterStateFault is swallowed and the loop goes on to the next
\* cluster; an error with any other code leaves process() as that error.
C5_InvalidStateSwallowed ==
    action = "delete" =>
        \A k \in 1..Len(calls) :
            /\ calls[k]["outcome"] = "InvalidDBClusterStateFault"
                  => (pc # "raised" /\ idx >= k)
            /\ calls[k]["outcome"] \in ErrorCodes \ {"InvalidDBClusterStateFault"}
                  => (pc = "raised" /\ exc = "ClientError")

RECURSIVE SumLen(_)
SumLen(ss) == IF ss = <<>> THEN 0 ELSE Len(Head(ss)) + SumLen(Tail(ss))

\* C6: the snapshot delete action submits ceil(n/50) units for n snapshots;
\* every unit but possibly the last is a batch of 50; the batches taken in
\* order list the snapshots from the last one of the input to the first one,
\* each in exactly one batch (for n = 120: sizes 50, 50, 20 covering 119..70, 69..20,
\* 19..0); and a unit's delete calls are for the snapshots of its batch.
C6_ReversedBatchesOfFifty ==
    action = "snapshot-delete" =>
        LET n == Len(resources)
            m == (n + ChunkSize - 1) \div ChunkSize
            id(j, k) == units[j][k]["DBClusterSnapshotIdentifier"]
        IN  pc # "call" =>
            /\ Len(units) = m
            /\ Len(futures) <= m
            /\ pc = "returned" => Len(futures) = m
            /\ \A j \in 1..m :
                  /\ Len(units[j]) = IF j < m THEN ChunkSize
                                     ELSE n - ChunkSize * (m - 1)
                  /\ \A k \in 1..Len(units[j]) :
                        id(j, k) = n - 1 - (ChunkSize * (j - 1) + (k - 1))
            /\ UNION {{id(j, k) : k \in 1..Len(units[j])} : j \in 1..m} = 0..(n - 1)
            /\ SumLen(units) = n
            /\ n = 120 =>
                  /\ [j \in 1..m |-> Len(units[j])] = <<50, 50, 20>>
                  /\ <<id(1, 1), id(1, 50)>> = <<119, 70>>
                  /\ <<id(2, 1), id(2, 50)>> = <<69, 20>>
                  /\ <<id(3, 1), id(3, 20)>> = <<19, 0>>
            /\ \A f \in Done :
                  LET cf == CallsOf(f)
                  IN  \A k \in 1..Len(cf) :
                          cf[k]["DBClusterSnapshotIdentifier"] = id(f, k)

\* C6 witness: 120 snapshots, three units submitted and run without error
C6_Witness ==
    /\ action = "snapshot-delete"
    /\ Len(resources) = 120
    /\ pc = "returned"
    /\ Len(futures) = 3
    /\ Failed = {}
    /\ Len(calls) = 120

-----------------------------------------------------------------------------
(* account.py: the account filters.  One evaluation of a filter's process()
   is one step; the provider's answers are the step's inputs. *)

MaxItems == 2

\* the single pseudo-resource Account.resources() builds
AccountResource == [account_id |-> 1, account_name |-> "alias"]

\* mutant: the exception is caught and the account reported
Unhandled_Swallowed(e) == [returned |-> TRUE, exception |-> "none", value |-> "resources"]

\* No try statement surrounds the client calls of the filters: an exception
\* of a call leaves process().
Unhandled(e) == [returned |-> FALSE, exception |-> e]

(* check-cloudtrail *)

\* The trails describe_trails is given to return, with the status
\* get_trail_status reports for each: a trail that passes every check and
\* the trails that differ from it in one respect, and a trail with nothing set
TrailKinds == {"good", "no-global", "no-kms", "other-kms", "no-digest",
               "single-region", "no-sns", "stopped", "delivery-error", "bare"}

Trail(k, kind) ==
    IF kind = "bare" THEN [TrailARN |-> k]
    ELSE [TrailARN |-> k,
          IncludeGlobalServiceEvents |-> (kind # "no-global"),
          LogFileValidationEnabled |-> (kind # "no-digest"),
          IsMultiRegionTrail |-> (kind # "single-region")]
         @@ (IF kind = "no-kms" THEN <<>>
             ELSE "KmsKeyId" :> (IF kind = "other-kms" THEN "key2" ELSE "key1"))
         @@ (IF kind = "no-sns" THEN <<>> ELSE "SNSTopicArn" :> "topic")

TrailStatus(kind) ==
    CASE kind \in {"stopped", "bare"} -> [IsLogging |-> FALSE]
      [] kind = "delivery-error" ->
             [IsLogging |-> TRUE, LatestDeliveryError |-> "AccessDenied"]
      [] OTHER -> [IsLogging |-> TRUE]

TrailWorlds == UNION {[1..n -> TrailKinds] : n \in 0..MaxItems}

\* the configurations the schema of check-cloudtrail admits: a boolean flag
\* is absent or true, running is absent, true or false, kms-key is absent or
\* names a key
CloudTrailFlags == {"global-events", "kms", "file-digest", "multi-region", "notifies"}

RECURSIVE MapOf(_, _)
MapOf(keys, v) ==
    IF keys = {} THEN <<>>
    ELSE LET k == CHOOSE x \in keys : TRUE
         IN  (k :> v) @@ MapOf(keys \ {k}, v)

CloudTrailConfigs ==
    {MapOf(on, TRUE) @@ key @@ run :
        on \in SUBSET CloudTrailFlags,
        key \in {<<>>, "kms-key" :> "key1"},
        run \in {<<>>} \cup {"running" :> b : b \in BOOLEAN}}

\* mutant: the file-digest check is left out
CloudTrailFilters_NoDigest(cfg, trails) ==
    LET a == IF Get(cfg, "global-events", FALSE)
             THEN SelectSeq(trails, LAMBDA t : Get(t, "IncludeGlobalServiceEvents", FALSE))
             ELSE trails
        b == IF Get(cfg, "kms", FALSE)
             THEN SelectSeq(a, LAMBDA t : Get(t, "KmsKeyId", "") # "")
             ELSE a
        c == IF Get(cfg, "kms-key", "") # ""
             THEN SelectSeq(b, LAMBDA t : Get(t, "KmsKeyId", "") = cfg["kms-key"])
             ELSE b
        e == IF Get(cfg, "multi-region", FALSE)
             THEN SelectSeq(c, LAMBDA t : Get(t, "IsMultiRegionTrail", FALSE))
             ELSE c
    IN  IF Get(cfg, "notifies", FALSE)
        THEN SelectSeq(e, LAMBDA t : Get(t, "SNSTopicArn", "") # "")
        ELSE e

\* mutant: the multi-region check is applied whether or not it is configured
CloudTrailFilters_Ungated(cfg, trails) ==
    LET a == IF Get(cfg, "global-events", FALSE)
             THEN SelectSeq(trails, LAMBDA t : Get(t, "IncludeGlobalServiceEvents", FALSE))
             ELSE trails
        b == IF Get(cfg, "kms", FALSE)
             THEN SelectSeq(a, LAMBDA t : Get(t, "KmsKeyId", "") # "")
             ELSE a
        c == IF Get(cfg, "kms-key", "") # ""
             THEN SelectSeq(b, LAMBDA t : Get(t, "KmsKeyId", "") = cfg["kms-key"])
             ELSE b
        d == IF Get(cfg, "file-digest", FALSE)
             THEN SelectSeq(c, LAMBDA t : Get(t, "LogFileValidationEnabled", FALSE))
             ELSE c
        e == SelectSeq(d, LAMBDA t : Get(t, "IsMultiRegionTrail", FALSE))
    IN  IF Get(cfg, "notifies", FALSE)
        THEN SelectSeq(e, LAMBDA t : Get(t, "SNSTopicArn", "") # "")
        ELSE e

\* CloudTrailEnabled.process, the checks on the trail records
CloudTrailFilters(cfg, trails) ==
    LET a == IF Get(cfg, "global-events", FALSE)
             THEN SelectSeq(trails, LAMBDA t : Get(t, "IncludeGlobalServiceEvents", FALSE))
             ELSE trails
        b == IF Get(cfg, "kms", FALSE)
             THEN SelectSeq(a, LAMBDA t : Get(t, "KmsKeyId", "") # "")
             ELSE a
        c == IF Get(cfg, "kms-key", "") # ""
             THEN SelectSeq(b, LAMBDA t : Get(t, "KmsKeyId", "") = cfg["kms-key"])
             ELSE b
        d == IF Get(cfg, "file-digest", FALSE)
             THEN SelectSeq(c, LAMBDA t : Get(t, "LogFileValidationEnabled", FALSE))
             ELSE c
        e == IF Get(cfg, "multi-region", FALSE)
             THEN SelectSeq(d, LAMBDA t : Get(t, "IsMultiRegionTrail", FALSE))
             ELSE d
    IN  IF Get(cfg, "notifies", FALSE)
        THEN SelectSeq(e, LAMBDA t : Get(t, "SNSTopicArn", "") # "")
        ELSE e

\* mutant: the annotation holds the list the checks have narrowed
AnnotatedList_Narrowed(fetched, narrowed) == narrowed

\* resources[0]['cloudtrails'] = trails, resources[0]['config_recorders'] =
\* recorders: the annotation is assigned before any check narrows the list,
\* so it holds the list as it was fetched
AnnotatedList(fetched, narrowed) == fetched

\* status['IsLogging'] and not status.get('LatestDeliveryError')
IsRunning(status) ==
    status["IsLogging"] /\ ~(Get(status, "LatestDeliveryError", "") # "")

\* CloudTrailEnabled.process.  world: the provider's trails; fail: which of
\* the client calls of this evaluation raises, 0 for none (describe_trails is
\* the first call, the get_trail_status calls follow).
CloudTrailEnabled_process(cfg, account, world, fail) ==
    LET raw == [k \in 1..Len(world) |-> Trail(k, world[k])]
        describe == [op |-> "describe_trails", raised |-> (fail = 1),
                     response |-> IF fail = 1 THEN <<>> ELSE raw]
        trails == CloudTrailFilters(cfg, raw)
        check == Get(cfg, "running", TRUE)
        \* the get_trail_status calls that return
        n == IF ~check THEN 0
             ELSE IF fail >= 2 /\ fail - 1 <= Len(trails) THEN fail - 2
             ELSE Len(trails)
        stops == check /\ n < Len(trails)
        seen == {trails[k]["TrailARN"] : k \in 1..n}
        \* t['Status'] = status writes to the records the annotation holds
        held == AnnotatedList(raw, trails)
        annotated == [k \in 1..Len(held) |->
                        IF held[k]["TrailARN"] \in seen
                        THEN held[k] @@
                             ("Status" :> TrailStatus(world[held[k]["TrailARN"]]))
                        ELSE held[k]]
        running == SelectSeq(SubSeq(trails, 1, n),
                             LAMBDA t : IsRunning(TrailStatus(world[t["TrailARN"]])))
        final == IF check THEN running ELSE trails
        status_calls == [k \in 1..(IF stops THEN n + 1 ELSE n) |->
                           [op |-> "get_trail_status", raised |-> (k = n + 1)]]
    IN  IF fail = 1
        THEN Unhandled("ClientError") @@
             [account |-> account, calls |-> <<describe>>, survivors |-> {}]
        ELSE IF stops
        THEN Unhandled("ClientError") @@
             [account |-> ("cloudtrails" :> annotated) @@ account,
              calls |-> <<describe>> \o status_calls, survivors |-> {}]
        ELSE [returned |-> TRUE, exception |-> "none",
              value |-> IF final # <<>> THEN "empty" ELSE "resources",
              account |-> ("cloudtrails" :> annotated) @@ account,
              calls |-> <<describe>> \o status_calls,
              survivors |-> {final[k]["TrailARN"] : k \in 1..Len(final)}]

(* check-config *)

\* The recorders describe_configuration_recorders is given to return, with
\* the status describe_configuration_recorder_status reports for each
RecorderKinds == {"good", "no-global", "not-all", "stopped", "failure", "pending"}

Recorder(k, kind) ==
    [name |-> k,
     recordingGroup |->
         [allSupported |-> (kind # "not-all")]
         @@ (IF kind = "no-global" THEN <<>> ELSE "includeGlobalResources" :> TRUE)]

RecorderStatus(k, kind) ==
    [name |-> k,
     recording |-> (kind # "stopped"),
     lastStatus |-> CASE kind = "failure" -> "Failure"
                      [] kind = "pending" -> "Pending"
                      [] OTHER -> "Success"]

DeliveryChannel(k) == [name |-> k]

ConfigWorlds ==
    [recorders : UNION {[1..n -> RecorderKinds] : n \in 0..MaxItems},
     channels : 0..MaxItems]

ConfigConfigs ==
    {MapOf(on, TRUE) @@ run :
        on \in SUBSET {"global-resources", "all-resources"},
        run \in {<<>>} \cup {"running" :> b : b \in BOOLEAN}}

\* str.lower() on the values of lastStatus
Lower(str) ==
    CASE str = "Failure" -> "failure"
      [] str = "Pending" -> "pending"
      [] str = "Success" -> "success"
      [] OTHER -> str

\* mutant: the all-resources check is not made
ConfigFilters_NoAllResources(cfg, recorders) ==
    IF Get(cfg, "global-resources", FALSE)
    THEN SelectSeq(recorders, LAMBDA r :
             Get(r["recordingGroup"], "includeGlobalResources", FALSE))
    ELSE recorders

\* ConfigEnabled.process, the checks on the recorder records
ConfigFilters(cfg, recorders) ==
    LET a == IF Get(cfg, "global-resources", FALSE)
             THEN SelectSeq(recorders, LAMBDA r :
                      Get(r["recordingGroup"], "includeGlobalResources", FALSE))
             ELSE recorders
    IN  IF Get(cfg, "all-resources", FALSE)
        THEN SelectSeq(a, LAMBDA r : Get(r["recordingGroup"], "allSupported", FALSE))
        ELSE a

\* ConfigEnabled.process.  fail: which client call of this evaluation raises,
\* 0 for none (describe_delivery_channels, describe_configuration_recorders,
\* describe_configuration_recorder_status, in this order).
ConfigEnabled_process(cfg, account, world, fail) ==
    LET channels == [k \in 1..world.channels |-> DeliveryChannel(k)]
        raw == [k \in 1..Len(world.recorders) |-> Recorder(k, world.recorders[k])]
        recorders == ConfigFilters(cfg, raw)
        check == Get(cfg, "running", TRUE) /\ recorders # <<>>
        status == [k \in 1..Len(raw) |-> RecorderStatus(k, world.recorders[k])]
        running == SelectSeq(recorders, LAMBDA r :
                       /\ status[r["name"]]["recording"]
                       /\ Lower(status[r["name"]]["lastStatus"]) \in {"pending", "success"})
        final == IF check THEN running ELSE recorders
        call(op, k, response) ==
            [op |-> op, raised |-> (fail = k),
             response |-> IF fail = k THEN <<>> ELSE response]
        c1 == call("describe_delivery_channels", 1, channels)
        c2 == call("describe_configuration_recorders", 2, raw)
        c3 == call("describe_configuration_recorder_status", 3, status)
        noted == [config_recorders |-> AnnotatedList(raw, recorders),
                  config_channels |-> channels] @@ account
    IN  IF fail = 1
        THEN Unhandled("ClientError") @@
             [account |-> account, calls |-> <<c1>>, survivors |-> {}]
        ELSE IF fail = 2
        THEN Unhandled("ClientError") @@
             [account |-> account, calls |-> <<c1, c2>>, survivors |-> {}]
        ELSE IF check /\ fail = 3
        THEN Unhandled("ClientError") @@
             [account |-> noted, calls |-> <<c1, c2, c3>>, survivors |-> {}]
        ELSE [returned |-> TRUE, exception |-> "none",
              value |-> IF channels # <<>> /\ final # <<>>
                        THEN "empty" ELSE "resources",
              account |-> IF check THEN ("config_status" :> status) @@ noted
                          ELSE noted,
              calls |-> IF check THEN <<c1, c2, c3>> ELSE <<c1, c2>>,
              survivors |-> {final[k]["name"] : k \in 1..Len(final)}]

(* iam-summary and password-policy *)

MaxEvals == 2

\* ValueFilter.match with the default operator: the value found under the
\* configured key equals the configured value; a missing key matches nothing
match(cfg, record) ==
    /\ cfg["key"] \in DOMAIN record
    /\ record[cfg["key"]] = cfg["value"]

\* not resources[0].get(key): the annotation is missing or an empty mapping
NotCached(account, key) ==
    ~(key \in DOMAIN account /\ DOMAIN account[key] # {})

\* the answers of get_account_summary
SummaryResponses == {[SummaryMap |-> [AccountMFAEnabled |-> v]] : v \in {0, 1}}

SummaryConfigs == [key : {"AccountMFAEnabled"}, value : {0, 1}]

\* the answers of get_account_password_policy, with or without a policy
PolicyResponses ==
    {<<>>} \cup {[PasswordPolicy |-> [MinimumPasswordLength |-> v]] : v \in {8, 14}}

PolicyConfigs == [key : {"MinimumPasswordLength"}, value : {8, 14}]

\* IAMSummary.process
IAMSummary_process(cfg, account, response, fail) ==
    LET fetch == NotCached(account, "iam_summary")
        call == [op |-> "get_account_summary", raised |-> (fail = 1)]
        noted == IF fetch THEN ("iam_summary" :> response["SummaryMap"]) @@ account
                 ELSE account
    IN  IF fetch /\ fail = 1
        THEN Unhandled("ClientError") @@
             [account |-> account, calls |-> <<call>>, survivors |-> {}]
        ELSE [returned |-> TRUE, exception |-> "none",
              value |-> IF match(cfg, noted["iam_summary"])
                        THEN "resources" ELSE "empty",
              account |-> noted,
              calls |-> IF fetch THEN <<call>> ELSE <<>>,
              survivors |-> {}]

\* AccountPasswordPolicy.process
AccountPasswordPolicy_process(cfg, account, response, fail) ==
    LET fetch == NotCached(account, "password_policy")
        call == [op |-> "get_account_password_policy", raised |-> (fail = 1)]
        policy == Get(response, "PasswordPolicy", <<>>)
        noted == IF fetch THEN ("password_policy" :> policy) @@ account
                 ELSE account
    IN  IF fetch /\ fail = 1
        THEN Unhandled("ClientError") @@
             [account |-> account, calls |-> <<call>>, survivors |-> {}]
        ELSE [returned |-> TRUE, exception |-> "none",
              value |-> IF match(cfg, noted["password_policy"])
                        THEN "resources" ELSE "empty",
              account |-> noted,
              calls |-> IF fetch THEN <<call>> ELSE <<>>,
              survivors |-> {}]

(* The attribute-threshold filters *)

MaxQuota == 10

MaxUsage == 10

\* the text of a quota value, as describe_account_attributes reports it: the
\* decimal digits of n
RECURSIVE DecimalString(_)
DecimalString(n) ==
    IF n < 10 THEN <<n>> ELSE Append(DecimalString(n \div 10), n % 10)

\* int(text) of a string of decimal digits
RECURSIVE ParseInt(_)
ParseInt(text) ==
    IF Len(text) = 0 THEN 0
    ELSE ParseInt(SubSeq(text, 1, Len(text) - 1)) * 10 + text[Len(text)]

\* Python's None, and an int value
None == <<>>

IntValue(n) == [value |-> n]

\* the AccountAttributes list of describe_account_attributes: an attribute
\* the filters do not read, and attribute attr when quota is not negative
AccountAttributes(attr, quota) ==
    <<[AttributeName |-> "supported-platforms",
       AttributeValues |-> <<[AttributeValue |-> "VPC"]>>]>>
    \o (IF quota < 0 THEN <<>>
        ELSE <<[AttributeName |-> attr,
                AttributeValues |-> <<[AttributeValue |-> DecimalString(quota)]>>]>>)

\* the Addresses list of describe_addresses
Addresses(standard, vpc) ==
    [k \in 1..(standard + vpc) |->
        [PublicIp |-> k, Domain |-> IF k <= standard THEN "standard" ELSE "vpc"]]

\* the instances EC2(...).resources() returns
Instances(n) == [k \in 1..n |-> [InstanceId |-> k]]

\* AccountAttributesFilter.get_attribute_count, on the list the client returned
get_attribute_count(attributes, attr) ==
    LET names == {attributes[k]["AttributeName"] : k \in 1..Len(attributes)}
        account_attrs == [a \in names |->
            attributes[CHOOSE k \in 1..Len(attributes) :
                           attributes[k]["AttributeName"] = a]]
    IN  IF attr \notin DOMAIN account_attrs THEN None
        ELSE IntValue(ParseInt(
                 account_attrs[attr]["AttributeValues"][1]["AttributeValue"]))

\* mutant: the division is made without the test of the quota
EightyPercent_Unguarded(max, count) ==
    IF max = None
    THEN [returned |-> FALSE, exception |-> "TypeError"]
    ELSE IF max.value = 0
    THEN [returned |-> FALSE, exception |-> "ZeroDivisionError"]
    ELSE [returned |-> TRUE, exception |-> "none",
          value |-> IF (count * 100) \div max.value < 80 THEN "False" ELSE "True"]

\* mutant: a usage of exactly eighty percent does not match
EightyPercent_Above(max, count) ==
    IF max = None \/ max.value = 0
    THEN [returned |-> TRUE, exception |-> "none", value |-> "False"]
    ELSE [returned |-> TRUE, exception |-> "none",
          value |-> IF (count * 100) \div max.value <= 80 THEN "False" ELSE "True"]

\* `if not max or count*100/max < 80: return False` and `return True` of the
\* three __call__ methods; / divides integers, rounding down
EightyPercent(max, count) ==
    IF max = None \/ max.value = 0
    THEN [returned |-> TRUE, exception |-> "none", value |-> "False"]
    ELSE [returned |-> TRUE, exception |-> "none",
          value |-> IF (count * 100) \div max.value < 80 THEN "False" ELSE "True"]

\* the attribute each filter reads
QuotaAttribute ==
    [x \in {"eighty-percent-max-instances"} |-> "max-instances"]
    @@ [x \in {"eighty-percent-max-elastic-ips"} |-> "max-elastic-ips"]
    @@ [x \in {"eighty-percent-max-vpc-elastic-ips"} |-> "vpc-max-elastic-ips"]

Threshold == DOMAIN QuotaAttribute

ThresholdWorlds ==
    [quota : (-1)..MaxQuota, instances : 0..MaxUsage, standard : {0}, vpc : {0}]
    \cup [quota : (-1)..MaxQuota, instances : {0},
          standard : 0..MaxUsage, vpc : 0..MaxUsage]

\* AccountMaxInstances.__call__.  fail: which call of this evaluation
\* raises, 0 for none
AccountMaxInstances_call(account, world, fail) ==
    LET attributes == AccountAttributes("max-instances", world.quota)
        c1 == [op |-> "describe_account_attributes", raised |-> (fail = 1),
               response |-> IF fail = 1 THEN <<>> ELSE attributes]
        listed == Instances(world.instances)
        c2 == [op |-> "ec2.resources", raised |-> (fail = 2),
               response |-> IF fail = 2 THEN <<>> ELSE listed]
        max_instances == get_attribute_count(attributes, "max-instances")
        instance_count == Len(listed)
    IN  IF fail = 1
        THEN Unhandled("ClientError") @@
             [account |-> account, calls |-> <<c1>>, survivors |-> {}]
        ELSE IF fail = 2
        THEN Unhandled("ClientError") @@
             [account |-> account, calls |-> <<c1, c2>>, survivors |-> {}]
        ELSE EightyPercent(max_instances, instance_count) @@
             [account |-> account, calls |-> <<c1, c2>>, survivors |-> {}]

\* AccountMaxElasticIPs.__call__ (domain "standard", max-elastic-ips) and
\* AccountMaxVpcElasticIPs.__call__ (domain "vpc", vpc-max-elastic-ips)
AccountMaxElasticIPs_call(attr, domain, account, world, fail) ==
    LET attributes == AccountAttributes(attr, world.quota)
        c1 == [op |-> "describe_account_attributes", raised |-> (fail = 1),
               response |-> IF fail = 1 THEN <<>> ELSE attributes]
        addresses == Addresses(world.standard, world.vpc)
        c2 == [op |-> "describe_addresses", raised |-> (fail = 2),
               response |-> IF fail = 2 THEN <<>> ELSE addresses]
        max_elastic_ips == get_attribute_count(attributes, attr)
        elastic_ip_count ==
            Len(SelectSeq(addresses, LAMBDA i : i["Domain"] = domain))
    IN  IF fail = 1
        THEN Unhandled("ClientError") @@
             [account |-> account, calls |-> <<c1>>, survivors |-> {}]
        ELSE IF fail = 2
        THEN Unhandled("ClientError") @@
             [account |-> account, calls |-> <<c1, c2>>, survivors |-> {}]
        ELSE EightyPercent(max_elastic_ips, elastic_ip_count) @@
             [account |-> account, calls |-> <<c1, c2>>, survivors |-> {}]

-----------------------------------------------------------------------------
(* Evaluations of one account filter on the account record *)

InitAccount ==
    /\ \/ action = "check-cloudtrail" /\ data \in CloudTrailConfigs
       \/ action = "check-config" /\ data \in ConfigConfigs
       \/ action = "iam-summary" /\ data \in SummaryConfigs
       \/ action = "password-policy" /\ data \in PolicyConfigs
       \/ action \in Threshold /\ data = <<>>
    /\ resources = <<AccountResource>>
    /\ units = <<>>
    /\ pc = "filter"
    /\ futures = <<>>
    /\ yielded = {}
    /\ calls = <<>>
    /\ errors = <<>>
    /\ exc = "none"
    /\ idx = 0
    /\ results = <<>>

\* the effect of one evaluation r of process(resources)
Evaluated(r) ==
    /\ resources' = <<r.account>>
    /\ calls' = calls \o r.calls
    /\ exc' = r.exception
    /\ results' = Append(results,
                         [result |-> IF r.returned THEN r.value ELSE "raised",
                          issued |-> Len(r.calls),
                          survivors |-> r.survivors])
    /\ UNCHANGED <<action, data, units, futures, pc, yielded, errors, idx>>

\* the composite filters run once in a policy run
CheckCloudTrail ==
    /\ action = "check-cloudtrail"
    /\ results = <<>>
    /\ \E world \in TrailWorlds : \E fail \in 0..(Len(world) + 1) :
          Evaluated(CloudTrailEnabled_process(data, resources[1], world, fail))

CheckConfig ==
    /\ action = "check-config"
    /\ results = <<>>
    /\ \E world \in ConfigWorlds : \E fail \in 0..3 :
          Evaluated(ConfigEnabled_process(data, resources[1], world, fail))

\* the annotating filters may run again on the record they annotated
CheckIAMSummary ==
    /\ action = "iam-summary"
    /\ Len(results) < MaxEvals
    /\ \E response \in SummaryResponses : \E fail \in 0..1 :
          Evaluated(IAMSummary_process(data, resources[1], response, fail))

CheckPasswordPolicy ==
    /\ action = "password-policy"
    /\ Len(results) < MaxEvals
    /\ \E response \in PolicyResponses : \E fail \in 0..1 :
          Evaluated(AccountPasswordPolicy_process(data, resources[1], response, fail))

\* a threshold filter is called once with the account record
CheckMaxInstances ==
    /\ action = "eighty-percent-max-instances"
    /\ results = <<>>
    /\ \E world \in ThresholdWorlds : \E fail \in 0..2 :
          /\ world.standard = 0 /\ world.vpc = 0
          /\ Evaluated(AccountMaxInstances_call(resources[1], world, fail))

CheckMaxElasticIPs ==
    /\ action \in {"eighty-percent-max-elastic-ips",
                   "eighty-percent-max-vpc-elastic-ips"}
    /\ results = <<>>
    /\ \E world \in ThresholdWorlds : \E fail \in 0..2 :
          /\ world.instances = 0
          /\ Evaluated(AccountMaxElasticIPs_call(
                 QuotaAttribute[action],
                 IF action = "eighty-percent-max-elastic-ips"
                 THEN "standard" ELSE "vpc",
                 resources[1], world, fail))

NextAccount ==
    \/ CheckMaxInstances
    \/ CheckMaxElasticIPs
    \/ CheckCloudTrail
    \/ CheckConfig
    \/ CheckIAMSummary
    \/ CheckPasswordPolicy

SpecAccount == InitAccount /\ [][NextAccount]_vars

-----------------------------------------------------------------------------
(* Properties of the account filters *)

\* whether trail record t passes the check that flag names
TrailPasses(flag, t) ==
    CASE flag = "global-events" ->
             "IncludeGlobalServiceEvents" \in DOMAIN t /\ t["IncludeGlobalServiceEvents"]
      [] flag = "kms" -> "KmsKeyId" \in DOMAIN t
      [] flag = "kms-key" -> "KmsKeyId" \in DOMAIN t /\ t["KmsKeyId"] = data["kms-key"]
      [] flag = "file-digest" ->
             "LogFileValidationEnabled" \in DOMAIN t /\ t["LogFileValidationEnabled"]
      [] flag = "multi-region" ->
             "IsMultiRegionTrail" \in DOMAIN t /\ t["IsMultiRegionTrail"]
      [] flag = "notifies" -> "SNSTopicArn" \in DOMAIN t
      [] flag = "running" ->
             /\ "Status" \in DOMAIN t
             /\ t["Status"]["IsLogging"]
             /\ "LatestDeliveryError" \notin DOMAIN t["Status"]

\* whether recorder record r passes the check that flag names
RecorderPasses(flag, r) ==
    CASE flag = "global-resources" ->
             /\ "includeGlobalResources" \in DOMAIN r["recordingGroup"]
             /\ r["recordingGroup"]["includeGlobalResources"]
      [] flag = "all-resources" -> r["recordingGroup"]["allSupported"]
      [] flag = "running" ->
             /\ "config_status" \in DOMAIN resources[1]
             /\ resources[1]["config_status"][r["name"]]["recording"]
             /\ resources[1]["config_status"][r["name"]]["lastStatus"]
                    \in {"Pending", "Success"}

\* the checks whose flag the configuration holds (a true flag, a key name)
PresentChecks == {f \in DOMAIN data : f = "kms-key" \/ data[f]}

\* the checks in force: running is in force unless it is configured false
EnabledChecks ==
    PresentChecks \cup (IF "running" \in DOMAIN data THEN {} ELSE {"running"})

Composite == {"check-cloudtrail", "check-config"}

Cached == {"iam-summary", "password-policy"}

\* C7: when CloudTrailEnabled.process returns, it returns the empty list if
\* and only if some trail of describe_trails passes every check in force,
\* and the account resource list otherwise; with no trail it returns the
\* account resource, with one trail that passes every check the empty list.
C7_CompliantIffATrailSurvives ==
    (action = "check-cloudtrail" /\ results # <<>> /\ results[1].result # "raised") =>
        LET raw == resources[1]["cloudtrails"]
            passes(t) == \A f \in EnabledChecks : TrailPasses(f, t)
        IN  /\ results[1].result \in {"empty", "resources"}
            /\ results[1].result = "empty" <=> \E k \in 1..Len(raw) : passes(raw[k])
            /\ raw = <<>> => results[1].result = "resources"
            /\ (Len(raw) = 1 /\ passes(raw[1])) => results[1].result = "empty"

\* C7 witness: two trails that each fail a different check in force, and the
\* account reported
C7_Witness ==
    /\ action = "check-cloudtrail"
    /\ results # <<>>
    /\ results[1].result = "resources"
    /\ {"file-digest", "kms"} \subseteq EnabledChecks
    /\ Len(resources[1]["cloudtrails"]) = 2
    /\ TrailPasses("kms", resources[1]["cloudtrails"][1])
    /\ ~TrailPasses("file-digest", resources[1]["cloudtrails"][1])
    /\ TrailPasses("file-digest", resources[1]["cloudtrails"][2])
    /\ ~TrailPasses("kms", resources[1]["cloudtrails"][2])

\* C8 as stated: a check whose flag is absent from the configuration excludes
\* nothing: every trail, and every recorder, that passes the checks whose
\* flags are present is kept.
C8_AbsentFlagExcludesNothing ==
    (action \in Composite /\ results # <<>> /\ results[1].result # "raised") =>
        /\ action = "check-cloudtrail" =>
              \A k \in 1..Len(resources[1]["cloudtrails"]) :
                  LET t == resources[1]["cloudtrails"][k]
                  IN  (\A f \in PresentChecks : TrailPasses(f, t))
                          => t["TrailARN"] \in results[1].survivors
        /\ action = "check-config" =>
              \A k \in 1..Len(resources[1]["config_recorders"]) :
                  LET r == resources[1]["config_recorders"][k]
                  IN  (\A f \in PresentChecks : RecorderPasses(f, r))
                          => r["name"] \in results[1].survivors

\* C8 amended: every check but running is gated by its flag, and running is
\* in force unless configured false: every trail, and every recorder, that
\* passes the checks whose flags are present and, unless running is
\* configured, the running check, is kept.
C8_FlagsGateChecksButRunning ==
    (action \in Composite /\ results # <<>> /\ results[1].result # "raised") =>
        /\ action = "check-cloudtrail" =>
              \A k \in 1..Len(resources[1]["cloudtrails"]) :
                  LET t == resources[1]["cloudtrails"][k]
                  IN  (\A f \in EnabledChecks : TrailPasses(f, t))
                          => t["TrailARN"] \in results[1].survivors
        /\ action = "check-config" =>
              \A k \in 1..Len(resources[1]["config_recorders"]) :
                  LET r == resources[1]["config_recorders"][k]
                  IN  (\A f \in EnabledChecks : RecorderPasses(f, r))
                          => r["name"] \in results[1].survivors

\* C8 witness: no flag but running is configured, and a trail that fails
\* every gated check is kept
C8_Witness ==
    /\ action = "check-cloudtrail"
    /\ DOMAIN data = {"running"}
    /\ results # <<>>
    /\ results[1].result = "empty"
    /\ \E k \in 1..Len(resources[1]["cloudtrails"]) :
          LET t == resources[1]["cloudtrails"][k]
          IN  /\ t["TrailARN"] \in results[1].survivors
              /\ \A f \in CloudTrailFlags : ~TrailPasses(f, t)

\* C9: in the composite filters an evaluation in which a client call raised
\* ends with that error and reports nothing; one in which no call raised
\* returns, and returns the account resource when describe_trails gave no
\* trail, or when there is no delivery channel or no recorder.
C9_EmptyIsNotFailure ==
    (action \in Composite /\ results # <<>>) =>
        LET failed == \E k \in 1..Len(calls) : calls[k].raised
        IN  /\ failed => (results[1].result = "raised" /\ exc = "ClientError")
            /\ ~failed =>
                  /\ results[1].result # "raised" /\ exc = "none"
                  /\ (action = "check-cloudtrail"
                        /\ resources[1]["cloudtrails"] = <<>>)
                        => results[1].result = "resources"
                  /\ (action = "check-config"
                        /\ (\/ resources[1]["config_channels"] = <<>>
                            \/ resources[1]["config_recorders"] = <<>>))
                        => results[1].result = "resources"

\* C9 witness: get_trail_status raised after describe_trails had returned
\* trails, and the evaluation ended with the error
C9_Witness ==
    /\ action = "check-cloudtrail"
    /\ results # <<>>
    /\ results[1].result = "raised"
    /\ Len(calls) >= 2
    /\ calls[Len(calls)].op = "get_trail_status"
    /\ calls[Len(calls)].raised
    /\ resources[1]["cloudtrails"] # <<>>

\* C10: for iam-summary and password-policy, once an evaluation has returned,
\* a later evaluation on the same record issues no client call and returns
\* the same result.
C10_SecondEvaluationUsesCache ==
    action \in Cached =>
        \A i, j \in 1..Len(results) :
            (i < j /\ results[i].result # "raised") =>
                /\ results[j].issued = 0
                /\ results[j].result = results[i].result


-----------------------------------------------------------------------------
(* Claims about the attribute-threshold filters *)

\* a threshold filter was called and both of its provider calls answered
ThresholdAnswered ==
    /\ action \in Threshold
    /\ Len(results) = 1
    /\ Len(calls) = 2
    /\ ~calls[1].raised /\ ~calls[2].raised

\* the provider reported no quota attribute / reported the quota q
QuotaMissing ==
    \A k \in 1..Len(calls[1].response) :
        calls[1].response[k]["AttributeName"] # QuotaAttribute[action]

QuotaIs(q) ==
    \E k \in 1..Len(calls[1].response) :
        /\ calls[1].response[k]["AttributeName"] = QuotaAttribute[action]
        /\ calls[1].response[k]["AttributeValues"][1]["AttributeValue"]
               = DecimalString(q)

\* the usage the provider reported for the filter
Usage ==
    IF action = "eighty-percent-max-instances"
    THEN Len(calls[2].response)
    ELSE Cardinality({k \in 1..Len(calls[2].response) :
             calls[2].response[k]["Domain"] =
                 IF action = "eighty-percent-max-elastic-ips"
                 THEN "standard" ELSE "vpc"})

\* C11: a threshold filter never raises a division error, and it returns
\* False whenever the quota attribute is missing or 0, for every usage
C11_NoQuotaNoMatch ==
    /\ action \in Threshold => exc \notin {"ZeroDivisionError", "TypeError"}
    /\ ThresholdAnswered /\ (QuotaMissing \/ QuotaIs(0)) =>
           /\ results[1].result = "False"
           /\ exc = "none"

C11_Witness ==
    /\ ThresholdAnswered
    /\ QuotaIs(0)
    /\ Usage > 0
    /\ results[1].result = "False"

C11_WitnessMissing ==
    /\ ThresholdAnswered
    /\ QuotaMissing
    /\ Usage > 0
    /\ results[1].result = "False"

\* C12: for a positive quota and any usage a threshold filter matches
\* exactly when usage * 100 >= 80 * quota
C12_MatchIffEightyPercent ==
    ThresholdAnswered =>
        \A q \in 1..(MaxQuota + 1) :
            QuotaIs(q) =>
                /\ exc = "none"
                /\ results[1].result \in {"True", "False"}
                /\ results[1].result = "True" <=> Usage * 100 >= 80 * q

\* the boundary: exactly eighty percent of a quota that 80 does not divide
C12_Witness ==
    /\ ThresholdAnswered
    /\ action = "eighty-percent-max-vpc-elastic-ips"
    /\ QuotaIs(5)
    /\ Usage = 4
    /\ results[1].result = "True"

-----------------------------------------------------------------------------
(* Further claims about the composite filters *)

\* C13: when ConfigEnabled.process returns, it returns the empty list exactly
\* when some recorder passes every check in force and a delivery channel
\* exists, and the account resource list otherwise
C13_CompliantIffRecorderAndChannel ==
    (action = "check-config" /\ results # <<>> /\ results[1].result # "raised") =>
        LET recorders == resources[1]["config_recorders"]
            passes(r) == \A f \in EnabledChecks : RecorderPasses(f, r)
        IN  /\ results[1].result \in {"empty", "resources"}
            /\ results[1].result = "empty" <=>
                   /\ \E k \in 1..Len(recorders) : passes(recorders[k])
                   /\ resources[1]["config_channels"] # <<>>

\* C13 witness: the first recorder is excluded by all-resources, the second
\* passes every check in force, running among them, and a channel exists
C13_Witness ==
    /\ action = "check-config"
    /\ results # <<>>
    /\ results[1].result = "empty"
    /\ {"all-resources", "running"} \subseteq EnabledChecks
    /\ Len(resources[1]["config_recorders"]) = 2
    /\ ~RecorderPasses("all-resources", resources[1]["config_recorders"][1])
    /\ \A f \in EnabledChecks :
           RecorderPasses(f, resources[1]["config_recorders"][2])

\* a survivor and no channel: the account is reported
C13_WitnessNoChannel ==
    /\ action = "check-config"
    /\ results # <<>>
    /\ results[1].result = "resources"
    /\ resources[1]["config_channels"] = <<>>
    /\ \E k \in 1..Len(resources[1]["config_recorders"]) :
           \A f \in EnabledChecks :
               RecorderPasses(f, resources[1]["config_recorders"][k])

\* the response of the call of operation op in this evaluation
ResponseOf(op) ==
    calls[CHOOSE k \in 1..Len(calls) : calls[k].op = op].response

\* record a holds every key of record b with b's value
Holds(a, b) ==
    /\ DOMAIN b \subseteq DOMAIN a
    /\ \A key \in DOMAIN b : a[key] = b[key]

\* C14: a composite filter that returns the account resource has annotated
\* it with the lists as the provider returned them: every trail of
\* describe_trails is in 'cloudtrails' with all its keys (a trail whose
\* status was read also carries 'Status'), and 'config_recorders' and
\* 'config_channels' are the provider's lists
C14_AnnotatedWithRawLists ==
    (action \in Composite /\ results # <<>> /\ results[1].result = "resources") =>
        /\ action = "check-cloudtrail" =>
               LET fetched == ResponseOf("describe_trails")
                   noted == resources[1]["cloudtrails"]
               IN  /\ Len(noted) = Len(fetched)
                   /\ \A k \in 1..Len(fetched) :
                          /\ Holds(noted[k], fetched[k])
                          /\ DOMAIN noted[k] \ DOMAIN fetched[k] \subseteq {"Status"}
        /\ action = "check-config" =>
               /\ resources[1]["config_recorders"]
                      = ResponseOf("describe_configuration_recorders")
               /\ resources[1]["config_channels"]
                      = ResponseOf("describe_delivery_channels")

\* C14 witness: two trails, the first excluded by a check in force and still
\* in the annotation of the reported account
C14_Witness ==
    /\ action = "check-cloudtrail"
    /\ results # <<>>
    /\ results[1].result = "resources"
    /\ "file-digest" \in EnabledChecks
    /\ Len(ResponseOf("describe_trails")) = 2
    /\ Len(resources[1]["cloudtrails"]) = 2
    /\ ~TrailPasses("file-digest", resources[1]["cloudtrails"][1])
    /\ "Status" \in DOMAIN resources[1]["cloudtrails"][2]

C14_WitnessConfig ==
    /\ action = "check-config"
    /\ results # <<>>
    /\ results[1].result = "resources"
    /\ "all-resources" \in EnabledChecks
    /\ Len(resources[1]["config_recorders"]) = 2
    /\ ~RecorderPasses("all-resources", resources[1]["config_recorders"][1])

-----------------------------------------------------------------------------
(* Further properties of the rds-cluster actions *)

\* the futures that have not finished
InFlight == {f \in 1..Len(futures) : futures[f].state # "done"}

C16_ReturnIsABarrier ==
    (action \in Concurrent /\ (pc = "returned" \/ results # <<>>)) =>
        /\ pc = "returned"
        /\ results = <<Returned>>
        /\ Len(futures) = Len(units)
        /\ \A f \in 1..Len(futures) : futures[f].state = "done"
        /\ InFlight = {}

\* C16 witness: Snapshot.process has returned its list; one of its two units
\* finished with an exception, the other without
C16_Witness ==
    /\ action = "snapshot"
    /\ pc = "returned"
    /\ results = <<Returned>>
    /\ Len(futures) = 2
    /\ Cardinality(Failed) = 1

\* C17: a unit is submitted only after all the units before it have
\* finished: at most one unit is in flight, it is the last one submitted,
\* and the provider calls of the units are issued in submission order
C17_OneUnitInFlight ==
    action \in Concurrent =>
        /\ Cardinality(InFlight) <= 1
        /\ Cardinality(Running) <= 1
        /\ \A f \in 1..(Len(futures) - 1) : futures[f].state = "done"
        /\ \A k \in 1..(Len(calls) - 1) : calls[k]["unit"] <= calls[k + 1]["unit"]
        /\ \A k \in 1..Len(calls) : calls[k]["unit"] \in Done

\* C17 witness: the second unit is running, the first has finished and its
\* provider call is issued
C17_Witness ==
    /\ action \in Concurrent
    /\ Len(futures) = 2
    /\ futures[1].state = "done"
    /\ futures[2].state = "running"
    /\ Len(CallsOf(1)) > 0

\* C18: Delete.process issues its calls one cluster after the other; when
\* the call for cluster k raises and the error is not swallowed, process()
\* raises there and takes no further step, so no call is issued for a later
\* cluster, and the calls issued for the clusters before k stay as they are
C18_DeleteFailsFast ==
    action = "delete" =>
        /\ exc # "none" <=> pc = "raised"
        /\ \A k \in 1..Len(calls) :
              /\ calls[k]["op"] = "delete_db_cluster"
              /\ calls[k]["unit"] = k
              /\ calls[k]["DBClusterIdentifier"] = units[k]["DBClusterIdentifier"]
              /\ (calls[k]["outcome"] # "ok" /\ idx < k) =>
                    /\ pc = "raised"
                    /\ Len(calls) = k
        /\ pc = "raised" =>
              /\ Len(calls) = idx + 1
              /\ calls[Len(calls)]["outcome"] # "ok"
              /\ ~ENABLED Next

\* C18 witness: the call for the second of two clusters raised after the
\* first cluster was deleted
C18_Witness ==
    /\ action = "delete"
    /\ pc = "raised"
    /\ Len(units) = 2
    /\ Len(calls) = 2
    /\ calls[1]["outcome"] = "ok"

\* the call for the first cluster raised: none is issued for the second
C18_WitnessFirst ==
    /\ action = "delete"
    /\ pc = "raised"
    /\ Len(units) = 2
    /\ Len(calls) = 1

\* C19: a delete_db_cluster_snapshot call that raises ends its batch: the
\* unit issues no call after it, the calls before it were made and did not
\* raise, and every other batch is submitted and, unless a call of its own
\* raises, issues the call for each of its snapshots
C19_FailureAbortsItsChunkOnly ==
    action = "snapshot-delete" =>
        /\ \A f \in Done :
              LET cf == CallsOf(f)
                  bad == {j \in 1..Len(cf) : cf[j]["raised"]}
              IN  /\ bad # {} => bad = {Len(cf)} /\ futures[f].exception # "none"
                  /\ bad = {} => Len(cf) = Len(units[f]) /\ futures[f].exception = "none"
                  /\ \A j \in 1..Len(cf) :
                        cf[j]["DBClusterSnapshotIdentifier"]
                            = units[f][j]["DBClusterSnapshotIdentifier"]
        /\ pc = "returned" => Done = 1..Len(units)

\* C19 witness: of three batches the second stopped at its 25th call, the
\* first and the third issued all their calls
C19_Witness ==
    /\ action = "snapshot-delete"
    /\ pc = "returned"
    /\ Len(units) = 3
    /\ Failed = {2}
    /\ Len(CallsOf(1)) = 50
    /\ Len(CallsOf(2)) = 25
    /\ Len(CallsOf(3)) = 20

====
